---- MODULE Spec2Model ----
(***************************************************************************)
(* A model of the accounting ingestion core:                               *)
(*   - the Starling webhook handlers (functions/src/starling/webhook.ts    *)
(*     and its second variant starlingWebhook),                           *)
(*   - the Etsy ledger sync (functions/src/etsy/ledgerSync.ts and its      *)
(*     capped variant).                                                    *)
(* Firestore is a map from document paths to the documents' data.          *)
(***************************************************************************)
EXTENDS Integers, Sequences, FiniteSets, TLC

VARIABLES
    firestore,    \* the database: a function from document paths to data
    handler,      \* webhook: the function the current invocation runs
    req,          \* webhook: the request of the current invocation
    pc,           \* webhook: position of the current invocation
    verdict,      \* webhook: what verifyEvent returned and whether it called crypto verify
    res,          \* webhook: the response sent (status 0: none sent)
    sent,         \* webhook: how many responses the invocation has sent
    writes,       \* webhook: how many documents the invocation has written
    storeBefore,  \* webhook: the database when the invocation started
    accepted,     \* webhook: the webhookEventUids answered 202 by starlingFeedItem so far
    variant,      \* sync: the deployed sync function, "uncapped" (ledgerSync.ts) or "capped"
    etsySyncEnabled, \* sync: the value of the parameter ETSY_SYNC_ENABLED
    etsyShopId,   \* sync: the value of the parameter ETSY_SHOP_ID
    remote,       \* sync: the remote ledger, in the order the API serves it
    now,          \* sync: the clock, in seconds since the epoch
    run           \* sync: the state of each invocation of etsyLedgerSync

webhookVars == <<handler, req, pc, verdict, res, sent, writes, storeBefore, accepted>>

syncVars == <<variant, etsySyncEnabled, etsyShopId, remote, now, run>>

vars == <<firestore, webhookVars, syncVars>>

(***************************************************************************)
(* Bounds of the webhook model.                                            *)
(***************************************************************************)
\* webhookEventUid values are 1..MaxUid; 0 stands for a body without the field
MaxUid == 2
\* the rest of an event's payload takes the values 1..MaxPayload
MaxPayload == 2

(***************************************************************************)
(* Requests.  A raw body is the text the sender put on the wire: either    *)
(* not JSON at all, the JSON literal null, or a JSON object with an        *)
(* optional webhookEventUid and one more field.  Changing one field of the *)
(* record is the model's "altered byte".                                   *)
(***************************************************************************)
RawBodies ==
    {[syntax |-> "object", uid |-> u, amount |-> a] : u \in 0..MaxUid, a \in 1..MaxPayload}
    \cup {[syntax |-> "null", uid |-> 0, amount |-> 0],
          [syntax |-> "malformed", uid |-> 0, amount |-> 0]}

SyntaxCode(s) == CASE s = "malformed" -> 0 [] s = "null" -> 1 [] s = "object" -> 2

\* The RSA-SHA512 signature the holder of the private key computes over a raw
\* body: a different body has a different signature.
Sign(rawBody) ==
    1 + SyntaxCode(rawBody.syntax) + 3 * (rawBody.uid + (MaxUid + 1) * rawBody.amount)

\* Header strings are numbered: 0 is the empty string, an even number 2*s is the
\* base64 text of the signature s, an odd number is text that encodes no signature.
Base64Encode(sig) == 2 * sig

\* Buffer.from(text, "base64"): the bytes the text encodes (0: bytes that are no
\* signature of any body); it never throws.
Base64Decode(text) == IF text % 2 = 0 THEN text \div 2 ELSE 0

\* crypto.verify(ENCRYPTION_ALGORITHM, data, PUBLIC_KEY_OBJECT, signature)
CryptoVerify(rawBody, signature) == signature = Sign(rawBody)

\* The values a header can take in IncomingHttpHeaders: string | string[] | undefined
Undefined == [kind |-> "undefined", text |-> 0, items |-> <<>>]

Str(t) == [kind |-> "string", text |-> t, items |-> <<>>]

Arr(ts) == [kind |-> "array", text |-> 0, items |-> ts]

\* String.prototype.toLowerCase on the strings of the model
ToLowerCase(s) ==
    CASE s \in {"X-Hook-Signature", "X-HOOK-SIGNATURE", "x-hook-signature"} -> "x-hook-signature"
      [] s \in {"TRUE", "True", "true"} -> "true"
      [] s \in {"FALSE", "False", "false"} -> "false"
      [] OTHER -> s

\* The ways a sender can spell the signature header's name
SentNames == {"X-Hook-Signature", "x-hook-signature", "X-HOOK-SIGNATURE"}

\* What a sender can put in the signature header of a request with body rawBody:
\* nothing, an empty or a meaningless string, the signature of any body (its own:
\* a valid request; another body's: a replayed signature over an altered body),
\* or two copies of the header.
SentValues(rawBody) ==
    {Undefined, Str(0), Str(1)}
    \cup {Str(Base64Encode(Sign(b))) : b \in RawBodies}
    \cup {Arr(<<Base64Encode(Sign(rawBody)), Base64Encode(Sign(rawBody))>>)}

\* The HTTP transport hands the handler a request whose header names are in
\* lower case (Node's IncomingMessage.headers).
Transport(rawBody, name, value) ==
    [rawBody |-> rawBody,
     headers |-> IF value.kind = "undefined"
                 THEN [n \in {} |-> Undefined]
                 ELSE [n \in {ToLowerCase(name)} |-> value]]

Requests ==
    UNION {{Transport(b, n, v) : n \in SentNames, v \in SentValues(b)} : b \in RawBodies}

NoRequest == Transport([syntax |-> "malformed", uid |-> 0, amount |-> 0], "x-hook-signature", Undefined)

\* request.headers[name]
Lookup(headers, name) == IF name \in DOMAIN headers THEN headers[name] ELSE Undefined

\* JavaScript's !v on a header value: undefined and "" are falsy, an array is not
Falsy(v) == v.kind = "undefined" \/ (v.kind = "string" /\ v.text = 0)

IsArray(v) == v.kind = "array"

(***************************************************************************)
(* Signature verification (both variants).  The result records whether     *)
(* crypto.verify was reached.                                              *)
(***************************************************************************)
\* verifyEvent with the cryptographic check left out: any non-empty string passes
verifyEvent_SkipsCrypto(request) ==
    LET payloadSignatureBase64 == Lookup(request.headers, "x-hook-signature")
    IN  IF Falsy(payloadSignatureBase64) \/ IsArray(payloadSignatureBase64)
        THEN [verified |-> FALSE, cryptoCalled |-> FALSE]
        ELSE [verified |-> TRUE, cryptoCalled |-> FALSE]

\* verifyEvent without the Array.isArray guard: the first copy is checked
verifyEvent_FirstOfArray(request) ==
    LET payloadSignatureBase64 == Lookup(request.headers, "x-hook-signature")
    IN  IF Falsy(payloadSignatureBase64)
        THEN [verified |-> FALSE, cryptoCalled |-> FALSE]
        ELSE [verified |-> CryptoVerify(request.rawBody,
                              Base64Decode(IF IsArray(payloadSignatureBase64)
                                           THEN payloadSignatureBase64.items[1]
                                           ELSE payloadSignatureBase64.text)),
              cryptoCalled |-> TRUE]

\* webhook.ts:53-65, the verifier of starlingFeedItem
verifyEvent(request) ==
    LET payloadSignatureBase64 == Lookup(request.headers, "x-hook-signature")
    IN  IF Falsy(payloadSignatureBase64) \/ IsArray(payloadSignatureBase64)
        THEN [verified |-> FALSE, cryptoCalled |-> FALSE]
        ELSE [verified |-> CryptoVerify(request.rawBody,
                                        Base64Decode(payloadSignatureBase64.text)),
              cryptoCalled |-> TRUE]

\* webhook.ts:101-113 (second variant), the verifier of starlingWebhook: it reads the header under
\* the name "X-Hook-Signature"
verifyEventWebhook(request) ==
    LET payloadSignatureBase64 == Lookup(request.headers, "X-Hook-Signature")
    IN  IF Falsy(payloadSignatureBase64) \/ IsArray(payloadSignatureBase64)
        THEN [verified |-> FALSE, cryptoCalled |-> FALSE]
        ELSE [verified |-> CryptoVerify(request.rawBody,
                                        Base64Decode(payloadSignatureBase64.text)),
              cryptoCalled |-> TRUE]

NotVerifiedYet == [verified |-> FALSE, cryptoCalled |-> FALSE]

(***************************************************************************)
(* Body parsing and the event document.                                    *)
(***************************************************************************)
\* JSON.parse(req.rawBody.toString("utf-8")): throws on text that is not JSON
JSONParse(rawBody) ==
    CASE rawBody.syntax = "malformed" ->
            [threw |-> TRUE, value |-> [type |-> "undefined", webhookEventUid |-> 0, amount |-> 0]]
      [] rawBody.syntax = "null" ->
            [threw |-> FALSE, value |-> [type |-> "null", webhookEventUid |-> 0, amount |-> 0]]
      [] OTHER ->
            [threw |-> FALSE,
             value |-> [type |-> "object", webhookEventUid |-> rawBody.uid,
                        amount |-> rawBody.amount]]

\* eventBodyJson["webhookEventUid"]: reading a property of null throws a TypeError
PropertyReadThrows(eventBodyJson) == eventBodyJson.type = "null"

\* the handler without its check of the event id
MissingEventId_Never(eventId) == FALSE

\* !eventId: the field is absent (0 stands for undefined)
MissingEventId(eventId) == eventId = 0

\* a path that does not depend on the event id
FeedItemPath_Constant(eventId) == [collection |-> "events/starling/feeditem", id |-> 1]

\* `events/starling/feeditem/${eventId}`
FeedItemPath(eventId) == [collection |-> "events/starling/feeditem", id |-> eventId]

\* { body: eventBodyJson, headers: req.headers }
FeedItemData(eventBodyJson, headers) == [body |-> eventBodyJson, headers |-> headers]

\* a write that leaves an existing document as it is (create-only)
DocSet_KeepsExisting(db, path, data) ==
    [p \in (DOMAIN db) \cup {path} |-> IF p \in DOMAIN db THEN db[p] ELSE data]

\* DocumentReference.set(data) without merge: the document at the path is
\* created, or replaced as a whole
DocSet(db, path, data) ==
    [p \in (DOMAIN db) \cup {path} |-> IF p = path THEN data ELSE db[p]]

NoResponse == [status |-> 0, body |-> "none"]

(***************************************************************************)
(* starlingFeedItem, webhook.ts:23-51.  The handler runs without a pause   *)
(* up to `await eventDocument.set(...)`; the write then succeeds or        *)
(* rejects; on success the handler resumes and answers 202.  A throw or a  *)
(* rejected await leaves the async handler without having sent a response. *)
(* An invocation reads nothing that another invocation writes, so          *)
(* invocations are taken one at a time.                                    *)
(***************************************************************************)
starlingFeedItem(request) ==
    /\ pc = "idle"
    /\ handler' = "starlingFeedItem"
    /\ req' = request
    /\ storeBefore' = firestore
    /\ writes' = 0
    /\ verdict' = verifyEvent(request)
    /\ UNCHANGED <<firestore, accepted, syncVars>>
    /\ LET verified == verifyEvent(request).verified
           parsed == JSONParse(request.rawBody)
       IN  IF ~verified
           THEN /\ res' = [status |-> 400, body |-> "error: signature"]
                /\ sent' = 1
                /\ pc' = "ended"
           ELSE IF parsed.threw \/ PropertyReadThrows(parsed.value)
           THEN /\ res' = NoResponse
                /\ sent' = 0
                /\ pc' = "threw"
           ELSE IF MissingEventId(parsed.value.webhookEventUid)
           THEN /\ res' = [status |-> 400, body |-> "error: missing webhookEventUid"]
                /\ sent' = 1
                /\ pc' = "ended"
           ELSE /\ res' = NoResponse
                /\ sent' = 0
                /\ pc' = "awaitSet"

\* the write of line 44 is applied and its promise resolves
FeedItemSetResolves ==
    /\ pc = "awaitSet"
    /\ handler = "starlingFeedItem"
    /\ LET eventBodyJson == JSONParse(req.rawBody).value
       IN  firestore' = DocSet(firestore, FeedItemPath(eventBodyJson.webhookEventUid),
                               FeedItemData(eventBodyJson, req.headers))
    /\ writes' = writes + 1
    /\ pc' = "resume"
    /\ UNCHANGED <<handler, req, verdict, res, sent, storeBefore, accepted, syncVars>>

\* the write of line 44 fails: nothing is stored and the await rejects, which
\* nothing in the handler catches
FeedItemSetRejects ==
    /\ pc = "awaitSet"
    /\ handler = "starlingFeedItem"
    /\ pc' = "threw"
    /\ UNCHANGED <<firestore, handler, req, verdict, res, sent, writes, storeBefore, accepted, syncVars>>

\* lines 49-50: res.status(202).send()
FeedItemRespond ==
    /\ pc = "resume"
    /\ handler = "starlingFeedItem"
    /\ res' = [status |-> 202, body |-> "empty"]
    /\ sent' = sent + 1
    /\ accepted' = accepted \cup {JSONParse(req.rawBody).value.webhookEventUid}
    /\ pc' = "ended"
    /\ UNCHANGED <<firestore, handler, req, verdict, writes, storeBefore, syncVars>>

(***************************************************************************)
(* starlingWebhook, webhook.ts:86-99 (second variant): verify and answer, nothing is stored.  *)
(***************************************************************************)
starlingWebhook(request) ==
    /\ pc = "idle"
    /\ handler' = "starlingWebhook"
    /\ req' = request
    /\ storeBefore' = firestore
    /\ writes' = 0
    /\ verdict' = verifyEventWebhook(request)
    /\ res' = IF verifyEventWebhook(request).verified
              THEN [status |-> 202, body |-> "empty"]
              ELSE [status |-> 400, body |-> "error: signature"]
    /\ sent' = 1
    /\ pc' = "ended"
    /\ UNCHANGED <<firestore, accepted, syncVars>>

\* the invocation is over (it answered, or it ended in an unhandled error); the
\* next request can be taken
InvocationEnds ==
    /\ pc \in {"ended", "threw"}
    /\ pc' = "idle"
    /\ handler' = "none"
    /\ req' = NoRequest
    /\ verdict' = NotVerifiedYet
    /\ res' = NoResponse
    /\ sent' = 0
    /\ writes' = 0
    /\ storeBefore' = firestore
    /\ UNCHANGED <<firestore, accepted, syncVars>>

\* no webhook invocation is running
WebhookIdle ==
    /\ handler = "none"
    /\ req = NoRequest
    /\ pc = "idle"
    /\ verdict = NotVerifiedYet
    /\ res = NoResponse
    /\ sent = 0
    /\ writes = 0
    /\ storeBefore = <<>>
    /\ accepted = {}

\* the sync job is deployed and never scheduled
SyncIdle ==
    /\ variant = "uncapped"
    /\ etsySyncEnabled = "false"
    /\ etsyShopId = "12345"
    /\ remote = <<>>
    /\ now = 0
    /\ run = <<>>

WebhookInit ==
    /\ firestore = <<>>
    /\ WebhookIdle
    /\ SyncIdle

WebhookNext ==
    \/ \E request \in Requests : starlingFeedItem(request)
    \/ FeedItemSetResolves
    \/ FeedItemSetRejects
    \/ FeedItemRespond
    \/ \E request \in Requests : starlingWebhook(request)
    \/ InvocationEnds

WebhookSpec == WebhookInit /\ [][WebhookNext]_vars

(***************************************************************************)
(* Properties of the webhook handlers.                                     *)
(***************************************************************************)
\* the request's signature header as the transport delivers it
SignatureHeader(request) == Lookup(request.headers, "x-hook-signature")

\* the request carries one signature header and it is the signature of the raw body
SignatureVerifies(request) ==
    /\ SignatureHeader(request).kind = "string"
    /\ SignatureHeader(request).text = Base64Encode(Sign(request.rawBody))

\* the signature header holds the signature of a body that differs from the raw
\* body in exactly one place
OneByteAltered(request) ==
    \E b \in RawBodies :
        /\ SignatureHeader(request) = Str(Base64Encode(Sign(b)))
        /\ Cardinality({f \in {"syntax", "uid", "amount"} : b[f] # request.rawBody[f]}) = 1

RejectedUnchanged(body) ==
    /\ pc = "ended"
    /\ res = [status |-> 400, body |-> body]
    /\ sent = 1
    /\ writes = 0
    /\ firestore = storeBefore

\* C1: starlingFeedItem answers a request whose signature does not verify
\* against the raw body with 400 and an error body, and the event store is
\* exactly as it was before the invocation.
C1_UnverifiedRejectedNothingStored ==
    (handler = "starlingFeedItem" /\ ~SignatureVerifies(req))
        => RejectedUnchanged("error: signature")

C1_Witness ==
    /\ handler = "starlingFeedItem"
    /\ pc = "ended"
    /\ OneByteAltered(req)
    /\ req.rawBody.uid # 0
    /\ DOMAIN firestore # {}

\* C2: a request with one valid signature header (delivered in lower case) and
\* a webhookEventUid in its JSON body is answered with 202 and an empty body,
\* by starlingFeedItem and by starlingWebhook.
C2_ValidRequestAccepted ==
    (/\ handler \in {"starlingFeedItem", "starlingWebhook"}
     /\ pc = "ended"
     /\ SignatureVerifies(req)
     /\ req.rawBody.syntax = "object"
     /\ req.rawBody.uid # 0)
        => res = [status |-> 202, body |-> "empty"]

\* C3: after accepted deliveries the event store holds exactly one document for
\* each distinct webhookEventUid accepted, at events/starling/feeditem/<uid>,
\* and an accepted delivery leaves its own body and headers there (a second
\* delivery of a uid overwrites).
C3_OneDocumentPerUid ==
    pc # "resume" =>
        /\ DOMAIN firestore =
               {[collection |-> "events/starling/feeditem", id |-> u] : u \in accepted}
        /\ (pc = "ended" /\ handler = "starlingFeedItem" /\ res.status = 202) =>
               firestore[[collection |-> "events/starling/feeditem", id |-> req.rawBody.uid]]
                   = [body |-> [type |-> "object", webhookEventUid |-> req.rawBody.uid,
                                amount |-> req.rawBody.amount],
                      headers |-> req.headers]

\* a webhookEventUid is accepted for the second time, with another payload,
\* while another uid has its document
C3_Witness ==
    /\ pc = "ended"
    /\ res.status = 202
    /\ \E p \in DOMAIN storeBefore :
          /\ p.id = req.rawBody.uid
          /\ storeBefore[p].body.amount # req.rawBody.amount
    /\ Cardinality(DOMAIN firestore) = 2

C5_NoCryptoWithoutSingleHeader ==
    (/\ handler \in {"starlingFeedItem", "starlingWebhook"}
     /\ SignatureHeader(req).kind \in {"undefined", "array"})
        => /\ verdict = [verified |-> FALSE, cryptoCalled |-> FALSE]
           /\ pc = "ended"
           /\ res.status = 400

\* two copies of a valid signature reach starlingFeedItem
C5_Witness ==
    /\ handler = "starlingFeedItem"
    /\ pc = "ended"
    /\ SignatureHeader(req) =
           Arr(<<Base64Encode(Sign(req.rawBody)), Base64Encode(Sign(req.rawBody))>>)
    /\ req.rawBody.uid # 0

\* C6: every invocation of starlingFeedItem ends with exactly one response,
\* 202 or 400, whatever the headers, the body and the outcome of the write.
C6_AlwaysDefinitiveResponse ==
    (handler = "starlingFeedItem" /\ pc \in {"ended", "threw"})
        => (sent = 1 /\ res.status \in {202, 400})

\* C7 as stated: a stored event document is never changed or removed.
C7_ContentNeverChanges ==
    [][\A p \in DOMAIN firestore :
          p \in DOMAIN firestore' /\ firestore'[p] = firestore[p]]_vars

\* C7 as amended: a stored event document is never removed, and it changes only
\* when a verified delivery with the same webhookEventUid is written, which
\* replaces it by that delivery's body and headers.
C7_NeverRemovedOnlyOverwritten ==
    [][\A p \in DOMAIN firestore :
          /\ p \in DOMAIN firestore'
          /\ firestore'[p] # firestore[p] =>
                /\ handler = "starlingFeedItem"
                /\ pc = "awaitSet"
                /\ SignatureVerifies(req)
                /\ p = [collection |-> "events/starling/feeditem", id |-> req.rawBody.uid]
                /\ firestore'[p] = [body |-> [type |-> "object",
                                              webhookEventUid |-> req.rawBody.uid,
                                              amount |-> req.rawBody.amount],
                                    headers |-> req.headers]]_vars

\* a document has just been replaced while another one stayed as it was
C7_Witness ==
    /\ pc = "resume"
    /\ \E p \in DOMAIN storeBefore : firestore[p] # storeBefore[p]
    /\ \E q \in DOMAIN storeBefore : firestore[q] = storeBefore[q]

(***************************************************************************)
(* The Etsy ledger sync.  Times are seconds since the epoch.               *)
(***************************************************************************)
\* const limit = 100 (the page size of fetchAndPersistLedgerEntries)
limit == 100

\* 30 * 24 * 60 * 60
thirtyDaysInSeconds == 30 * 24 * 60 * 60

DaySeconds == 24 * 60 * 60

HourSeconds == 60 * 60

\* the remote ledgers of the model hold up to MaxFullPages full pages and a rest
MaxFullPages == 2
\* the clock advances at most MaxTicks days
MaxTicks == 1

\* The clock starts 45 days after the epoch, so that the window of either
\* variant (the 30 days before now; the 30 days after the epoch) holds entries
\* of the ledgers below.
StartOfClock == 45 * DaySeconds

\* the sizes of the remote ledgers: a page of 10, and 0, 37, 100, 137, 200, 237, ...
LedgerSizes == {10} \cup {k * limit + d : k \in 0..MaxFullPages, d \in {0, 37}}

\* the creation time of the first entry of a remote ledger
LedgerStarts == {10 * DaySeconds, 16 * DaySeconds, 25 * DaySeconds}

\* which entries of a remote ledger come without entry_id
LedgerShapes == {"allValid", "fifthInvalid", "noneValid"}

\* The i-th entry of a ledger: entries are one hour apart; an entry with an id has
\* entry_id i; every entry has created_timestamp and one more field.
LedgerEntry(i, start, shape) ==
    IF shape = "noneValid" \/ (shape = "fifthInvalid" /\ i % 5 = 0)
    THEN [created_timestamp |-> start + (i - 1) * HourSeconds, amount |-> i]
    ELSE [entry_id |-> i, created_timestamp |-> start + (i - 1) * HourSeconds, amount |-> i]

Ledger(n, start, shape) == [i \in 1..n |-> LedgerEntry(i, start, shape)]

RemoteLedgers ==
    {Ledger(n, start, shape) : n \in LedgerSizes, start \in LedgerStarts, shape \in LedgerShapes}

\* getShopPaymentAccountLedgerEntries({min_created, max_created, limit, offset}):
\* the entries created within [min_created, max_created], from position offset,
\* at most limit of them
InWindow(ledger, minCreated, maxCreated) ==
    SelectSeq(ledger, LAMBDA e : minCreated <= e.created_timestamp
                                  /\ e.created_timestamp <= maxCreated)

RemotePage(ledger, minCreated, maxCreated, pageLimit, offset) ==
    LET matching == InWindow(ledger, minCreated, maxCreated)
        last == IF offset + pageLimit < Len(matching) THEN offset + pageLimit ELSE Len(matching)
    IN  SubSeq(matching, offset + 1, last)

\* !entry.entry_id is false
HasEntryId(entry) == "entry_id" \in DOMAIN entry /\ entry.entry_id # 0

\* `events/etsy/ledgerentry/${entry.entry_id}`
LedgerEntryPath(entryId) == [collection |-> "events/etsy/ledgerentry", id |-> entryId]

\* the documents of the collection events/etsy/ledgerentry
LedgerDocs(db) == {p \in DOMAIN db : p.collection = "events/etsy/ledgerentry"}

\* set(docRef, data) without merge
MergeData_Replaces(old, new) == new

\* set(docRef, data, { merge: true }): the fields of data replace or extend
\* those of the document, its other fields stay
MergeData(old, new) ==
    [f \in (DOMAIN old) \cup (DOMAIN new) |-> IF f \in DOMAIN new THEN new[f] ELSE old[f]]

\* batch.commit() of persistBatch: the sets of the batch, applied at once and
\* in their order.  The sets at one path combine (a field has the value of the
\* last set that names it) and merge into the document.
BatchCommit(db, entries) ==
    LET ids == [i \in 1..Len(entries) |-> entries[i].entry_id]
        paths == {LedgerEntryPath(ids[i]) : i \in 1..Len(entries)}
        Combined(p) ==
            LET setsAt == {i \in 1..Len(entries) : ids[i] = p.id}
                LastNaming(f) ==
                    CHOOSE i \in setsAt :
                        /\ f \in DOMAIN entries[i]
                        /\ \A j \in setsAt : f \in DOMAIN entries[j] => j <= i
            IN  [f \in UNION {DOMAIN entries[i] : i \in setsAt} |-> entries[LastNaming(f)][f]]
    IN  [p \in (DOMAIN db) \cup paths |->
            IF p \in paths
            THEN MergeData(IF p \in DOMAIN db THEN db[p] ELSE <<>>, Combined(p))
            ELSE db[p]]

\* a filter that gives up at the first entry without entry_id
validEntries_UntilFirstInvalid(entries) ==
    LET invalid == {i \in 1..Len(entries) : ~HasEntryId(entries[i])}
    IN  IF invalid = {} THEN entries
        ELSE SubSeq(entries, 1, (CHOOSE i \in invalid : \A j \in invalid : i <= j) - 1)

\* persistBatch, lines 125-140: the entries that have an entry_id
validEntries(entries) == SelectSeq(entries, HasEntryId)

\* persistBatch reaches batch.commit() (it returns 0 before, on an empty list
\* and on a list without a valid entry)
persistBatchCommits(entries) == Len(entries) # 0 /\ Len(validEntries(entries)) # 0

(***************************************************************************)
(* Cursor resolution.  The clock is read in whole seconds                  *)
(* (Math.floor(Date.now() / 1000)).                                        *)
(***************************************************************************)
\* collection("events/etsy/ledgerentry").orderBy("body.created_timestamp", "desc")
\* .limit(1): a query ordered by a field returns only documents that have the
\* field; the result is the documents with the greatest value (limit(1) takes one)
LastEntryQuery(db) ==
    LET withField == {p \in LedgerDocs(db) :
                          /\ "body" \in DOMAIN db[p]
                          /\ "created_timestamp" \in DOMAIN db[p].body}
    IN  {p \in withField :
            \A q \in withField : db[q].body.created_timestamp <= db[p].body.created_timestamp}

\* getLastSyncTimestamp without the guard on a missing timestamp
getLastSyncTimestamp_NoGuardOnMissing(db, queryThrows, clock) ==
    IF queryThrows
    THEN [value |-> clock - 30 * 24 * 60 * 60, log |-> "error"]
    ELSE LET snapshot == LastEntryQuery(db)
         IN  IF snapshot = {}
             THEN [value |-> clock - 30 * 24 * 60 * 60, log |-> "empty"]
             ELSE LET timestamp == db[CHOOSE p \in snapshot : TRUE].body.created_timestamp
                  IN  [value |-> timestamp, log |-> IF timestamp = 0 THEN "missing" ELSE "found"]

\* ledgerSync.ts:87-117.  log is the message the branch writes.
getLastSyncTimestamp(db, queryThrows, clock) ==
    IF queryThrows
    THEN [value |-> clock - 30 * 24 * 60 * 60, log |-> "error"]
    ELSE LET snapshot == LastEntryQuery(db)
         IN  IF snapshot = {}
             THEN [value |-> clock - 30 * 24 * 60 * 60, log |-> "empty"]
             ELSE LET timestamp == db[CHOOSE p \in snapshot : TRUE].body.created_timestamp
                  IN  IF timestamp = 0
                      THEN [value |-> clock - 30 * 24 * 60 * 60, log |-> "missing"]
                      ELSE [value |-> timestamp, log |-> "found"]

\* part_001:92-119: null instead of a default
getLastSyncTimestampCapped(db, queryThrows) ==
    IF queryThrows
    THEN [isNull |-> TRUE, value |-> 0, log |-> "error"]
    ELSE LET snapshot == LastEntryQuery(db)
         IN  IF snapshot = {}
             THEN [isNull |-> TRUE, value |-> 0, log |-> "empty"]
             ELSE LET timestamp == db[CHOOSE p \in snapshot : TRUE].body.created_timestamp
                  IN  IF timestamp = 0
                      THEN [isNull |-> TRUE, value |-> 0, log |-> "missing"]
                      ELSE [isNull |-> FALSE, value |-> timestamp, log |-> "found"]

\* (await getLastSyncTimestamp()) ?? 0
NullishCoalesce(v, default) == IF v.isNull THEN default ELSE v.value

\* parseInt(shopIdStr, 10) on the parameter values of the model
ParseInt(str) ==
    IF str = "12345" THEN [nan |-> FALSE, value |-> 12345] ELSE [nan |-> TRUE, value |-> 0]

(***************************************************************************)
(* One invocation of etsyLedgerSync.                                       *)
(***************************************************************************)
\* the created_timestamp values of the entries persistBatch has stored
PersistedTimestamps(db) ==
    {db[p].created_timestamp : p \in {q \in LedgerDocs(db) : "created_timestamp" \in DOMAIN db[q]}}

\* the greatest of them, -1 when there is none
NewestPersisted(db) ==
    LET stored == PersistedTimestamps(db)
    IN  IF stored = {} THEN -1 ELSE CHOOSE t \in stored : \A u \in stored : u <= t

\* storeAtStart records, for the properties, the store as it was when the
\* invocation began
IdleRun ==
    [pc |-> "idle", outcome |-> "none", thrownBy |-> "none", storeAtStart |-> <<>>,
     queryFailed |-> FALSE, cursorLog |-> "none",
     lastSyncTimestamp |-> 0, minCreated |-> 0, maxCreated |-> 0,
     offset |-> 0, totalPersisted |-> 0, entries |-> <<>>,
     requests |-> <<>>, queries |-> 0, commits |-> 0, returned |-> 0]

\* an error leaves etsyLedgerSync (its catch logs and rethrows); origin is the
\* call that threw
Threw(rn, origin) ==
    [rn EXCEPT !.pc = "failed", !.outcome = "threw", !.thrownBy = origin, !.entries = <<>>]

\* the scheduler starts the function: the enable flag (capped variant), the
\* configuration, the client, up to `await getLastSyncTimestamp()`
etsyLedgerSync(r) ==
    /\ run[r].pc = "idle"
    /\ run' = [run EXCEPT ![r] =
                 IF variant = "capped" /\ ToLowerCase(etsySyncEnabled) # "true"
                 THEN [@ EXCEPT !.pc = "done", !.outcome = "disabled"]
                 ELSE IF ParseInt(etsyShopId).nan
                 THEN Threw(@, "config")
                 ELSE [@ EXCEPT !.pc = "query", !.queries = 1,
                                !.storeAtStart = firestore]]
    /\ UNCHANGED <<firestore, webhookVars, variant, etsySyncEnabled, etsyShopId, remote, now>>

\* a window that ends now in either variant
WindowOpened_ToNow(rn, cursor) ==
    [rn EXCEPT !.pc = "fetch",
               !.cursorLog = cursor.log,
               !.lastSyncTimestamp = cursor.value,
               !.minCreated = cursor.value,
               !.maxCreated = now,
               !.offset = 0,
               !.totalPersisted = 0,
               !.requests = <<0>>]

\* the cursor is resolved, the window computed and the first page requested
\* (ledgerSync.ts:242-257 and processPage(0, 0); part_001:251-272)
WindowOpened(rn, cursor) ==
    [rn EXCEPT !.pc = "fetch",
               !.cursorLog = cursor.log,
               !.lastSyncTimestamp = cursor.value,
               !.minCreated = cursor.value,
               !.maxCreated = IF variant = "uncapped" THEN now
                              ELSE cursor.value + thirtyDaysInSeconds,
               !.offset = 0,
               !.totalPersisted = 0,
               !.requests = <<0>>]

ResolvedCursor(queryThrows) ==
    IF variant = "uncapped"
    THEN getLastSyncTimestamp(firestore, queryThrows, now)
    ELSE [value |-> NullishCoalesce(getLastSyncTimestampCapped(firestore, queryThrows), 0),
          log |-> getLastSyncTimestampCapped(firestore, queryThrows).log]

CursorQueryResolves(r) ==
    /\ run[r].pc = "query"
    /\ run' = [run EXCEPT ![r] = WindowOpened(@, ResolvedCursor(FALSE))]
    /\ UNCHANGED <<firestore, webhookVars, variant, etsySyncEnabled, etsyShopId, remote, now>>

CursorQueryRejects(r) ==
    /\ run[r].pc = "query"
    /\ run' = [run EXCEPT ![r] = WindowOpened([@ EXCEPT !.queryFailed = TRUE],
                                              ResolvedCursor(TRUE))]
    /\ UNCHANGED <<firestore, webhookVars, variant, etsySyncEnabled, etsyShopId, remote, now>>

\* processPage that decides on the number of records persisted
processPageContinues_OnPersisted(rn, persistedCount) ==
    LET newTotal == rn.totalPersisted + persistedCount
    IN  IF persistedCount = 0 \/ persistedCount < limit
        THEN [rn EXCEPT !.pc = "done", !.outcome = "returned", !.returned = newTotal,
                        !.totalPersisted = newTotal, !.entries = <<>>]
        ELSE [rn EXCEPT !.pc = "fetch", !.offset = rn.offset + limit,
                        !.totalPersisted = newTotal, !.entries = <<>>,
                        !.requests = Append(rn.requests, rn.offset + limit)]

\* processPage that stops only on an empty page
processPageContinues_UntilEmpty(rn, persistedCount) ==
    LET newTotal == rn.totalPersisted + persistedCount
    IN  IF Len(rn.entries) = 0
        THEN [rn EXCEPT !.pc = "done", !.outcome = "returned", !.returned = newTotal,
                        !.totalPersisted = newTotal, !.entries = <<>>]
        ELSE [rn EXCEPT !.pc = "fetch", !.offset = rn.offset + limit,
                        !.totalPersisted = newTotal, !.entries = <<>>,
                        !.requests = Append(rn.requests, rn.offset + limit)]

\* processPage after persistBatch returned persistedCount (lines 190-198): return
\* the total on a short page, request the next page otherwise
processPageContinues(rn, persistedCount) ==
    LET newTotal == rn.totalPersisted + persistedCount
    IN  IF Len(rn.entries) = 0 \/ Len(rn.entries) < limit
        THEN [rn EXCEPT !.pc = "done", !.outcome = "returned", !.returned = newTotal,
                        !.totalPersisted = newTotal, !.entries = <<>>]
        ELSE [rn EXCEPT !.pc = "fetch", !.offset = rn.offset + limit,
                        !.totalPersisted = newTotal, !.entries = <<>>,
                        !.requests = Append(rn.requests, rn.offset + limit)]

\* a processPage that asks for the next page as soon as a full page has arrived,
\* before the page is persisted
FetchResolves_Prefetches(r) ==
    /\ run[r].pc = "fetch"
    /\ LET entries == RemotePage(remote, run[r].minCreated, run[r].maxCreated,
                                 limit, run[r].offset)
       IN  run' = [run EXCEPT ![r] =
                     IF Len(entries) = limit
                     THEN [@ EXCEPT !.entries = entries, !.offset = @ + limit,
                                    !.requests = Append(@, run[r].offset + limit)]
                     ELSE IF persistBatchCommits(entries)
                     THEN [@ EXCEPT !.pc = "commit", !.entries = entries]
                     ELSE processPageContinues([@ EXCEPT !.entries = entries], 0)]
    /\ UNCHANGED <<firestore, webhookVars, variant, etsySyncEnabled, etsyShopId, remote, now>>

\* the remote API answers the request of processPage (lines 173-186);
\* persistBatch runs up to batch.commit(), or returns 0 without a commit
FetchResolves(r) ==
    /\ run[r].pc = "fetch"
    /\ LET entries == RemotePage(remote, run[r].minCreated, run[r].maxCreated,
                                 limit, run[r].offset)
       IN  run' = [run EXCEPT ![r] =
                     IF persistBatchCommits(entries)
                     THEN [@ EXCEPT !.pc = "commit", !.entries = entries]
                     ELSE processPageContinues([@ EXCEPT !.entries = entries], 0)]
    /\ UNCHANGED <<firestore, webhookVars, variant, etsySyncEnabled, etsyShopId, remote, now>>

\* a failed request that is made once more
FetchRejects_Retries(r) ==
    /\ run[r].pc = "fetch"
    /\ Len(run[r].requests) <= MaxFullPages + 1
    /\ run' = [run EXCEPT ![r].requests = Append(@, run[r].offset)]
    /\ UNCHANGED <<firestore, webhookVars, variant, etsySyncEnabled, etsyShopId, remote, now>>

\* the request fails: the error leaves processPage, fetchAndPersistLedgerEntries
\* and etsyLedgerSync (both log and rethrow)
FetchRejects(r) ==
    /\ run[r].pc = "fetch"
    /\ run' = [run EXCEPT ![r] = Threw(@, "fetch")]
    /\ UNCHANGED <<firestore, webhookVars, variant, etsySyncEnabled, etsyShopId, remote, now>>

\* batch.commit() succeeds (lines 149-152) and processPage goes on
CommitResolves(r) ==
    /\ run[r].pc = "commit"
    /\ firestore' = BatchCommit(firestore, validEntries(run[r].entries))
    /\ run' = [run EXCEPT ![r] =
                 processPageContinues([@ EXCEPT !.commits = @ + 1],
                                      Len(validEntries(run[r].entries)))]
    /\ UNCHANGED <<webhookVars, variant, etsySyncEnabled, etsyShopId, remote, now>>

\* a failing commit that has stored the first record of the batch
CommitRejects_Partial(r) ==
    /\ run[r].pc = "commit"
    /\ firestore' = BatchCommit(firestore, SubSeq(validEntries(run[r].entries), 1, 1))
    /\ run' = [run EXCEPT ![r] = Threw(@, "commit")]
    /\ UNCHANGED <<webhookVars, variant, etsySyncEnabled, etsyShopId, remote, now>>

\* batch.commit() fails: nothing of the batch is stored, the error propagates
CommitRejects(r) ==
    /\ run[r].pc = "commit"
    /\ run' = [run EXCEPT ![r] = Threw(@, "commit")]
    /\ UNCHANGED <<firestore, webhookVars, variant, etsySyncEnabled, etsyShopId, remote, now>>

\* the invocation is over; the scheduler can start the next one
RunEnds(r) ==
    /\ run[r].pc \in {"done", "failed"}
    /\ run' = [run EXCEPT ![r] = IdleRun]
    /\ UNCHANGED <<firestore, webhookVars, variant, etsySyncEnabled, etsyShopId, remote, now>>

\* a day passes; an invocation lasts minutes at most, so none is running
Tick ==
    /\ \A r \in DOMAIN run : run[r].pc = "idle"
    /\ now < StartOfClock + MaxTicks * DaySeconds
    /\ now' = now + DaySeconds
    /\ UNCHANGED <<firestore, webhookVars, variant, etsySyncEnabled, etsyShopId, remote, run>>

\* a document in the shape getLastSyncTimestamp reads ({ body: { created_timestamp } }),
\* in the store before the first run
WrappedDoc(timestamp) == [body |-> [created_timestamp |-> timestamp]]

\* the ledger-entry store before the first run: empty, or one wrapped document
\* with a timestamp, or one whose timestamp is null or 0, or the first entry of
\* the oldest ledger as persistBatch stored it on an earlier day
InitialStores ==
    {<<>>,
     [p \in {LedgerEntryPath(1)} |-> WrappedDoc(20 * DaySeconds)],
     [p \in {LedgerEntryPath(1)} |-> WrappedDoc(0)],
     [p \in {LedgerEntryPath(1)} |-> LedgerEntry(1, 10 * DaySeconds, "allValid")]}

Deployments ==
    {[variant |-> "uncapped", enabled |-> "false"]}
    \cup {[variant |-> "capped", enabled |-> e] : e \in {"false", "true", "TRUE"}}

SyncInit ==
    /\ WebhookIdle
    /\ firestore \in InitialStores
    /\ \E d \in Deployments : variant = d.variant /\ etsySyncEnabled = d.enabled
    /\ etsyShopId \in {"12345", "my-shop"}
    /\ remote \in RemoteLedgers
    /\ now = StartOfClock
    /\ run = [r \in {1} |-> IdleRun]

SyncNext ==
    \/ \E r \in DOMAIN run : etsyLedgerSync(r)
    \/ \E r \in DOMAIN run : CursorQueryResolves(r)
    \/ \E r \in DOMAIN run : CursorQueryRejects(r)
    \/ \E r \in DOMAIN run : FetchResolves(r)
    \/ \E r \in DOMAIN run : FetchRejects(r)
    \/ \E r \in DOMAIN run : CommitResolves(r)
    \/ \E r \in DOMAIN run : CommitRejects(r)
    \/ \E r \in DOMAIN run : RunEnds(r)
    \/ Tick

SyncSpec == SyncInit /\ [][SyncNext]_vars

(***************************************************************************)
(* Properties of the ledger sync.                                          *)
(***************************************************************************)
\* the records the remote ledger holds in the window of run r
WindowOf(r) == InWindow(remote, run[r].minCreated, run[r].maxCreated)

\* the positions of the records of window that carry an entry_id
WithEntryId(window) == {i \in 1..Len(window) : "entry_id" \in DOMAIN window[i]}

\* C8, the counts: the requests of a run are at offsets 0, 100, 200, ..., never
\* more than floor(N/100)+1 of them for the N records in the window; a run that
\* returns has made exactly floor(N/100)+1 requests, returns the number of
\* records persisted over all pages, and these records are in the store.
C8_Counts ==
    \A r \in DOMAIN run :
        run[r].requests # <<>> =>
            LET window == WindowOf(r)
                N == Len(window)
                valid == WithEntryId(window)
            IN  /\ \A k \in 1..Len(run[r].requests) : run[r].requests[k] = (k - 1) * 100
                /\ Len(run[r].requests) <= (N \div 100) + 1
                /\ (run[r].pc = "done" /\ run[r].outcome = "returned") =>
                      /\ Len(run[r].requests) = (N \div 100) + 1
                      /\ run[r].returned = Cardinality(valid)
                      /\ (Cardinality(valid) = N => run[r].returned = N)
                      /\ \A i \in valid :
                            [collection |-> "events/etsy/ledgerentry",
                             id |-> window[i].entry_id] \in DOMAIN firestore

\* what is left of the page loop for a run in state rn whose window asks for K
\* requests: two steps for each request not yet made, and the steps of the page
\* in hand
LoopVariant(rn, K) ==
    CASE rn.pc = "fetch"  -> 2 * (K - Len(rn.requests)) + 2
      [] rn.pc = "commit" -> 2 * (K - Len(rn.requests)) + 1
      [] OTHER -> 0

\* C8: fetchAndPersistLedgerEntries terminates: every step of a run in the page
\* loop leaves its window alone and brings the run nearer to the end of the
\* loop, whose length the number of records in the window bounds; the run ends
\* with the counts above.
C8_PaginationTerminates ==
    /\ []C8_Counts
    /\ [][\A r \in DOMAIN run :
             (run[r].pc \in {"fetch", "commit"} /\ run'[r] # run[r]) =>
                 LET K == (Len(WindowOf(r)) \div 100) + 1
                 IN  /\ remote' = remote
                     /\ run'[r].minCreated = run[r].minCreated
                     /\ run'[r].maxCreated = run[r].maxCreated
                     /\ LoopVariant(run'[r], K) < LoopVariant(run[r], K)
                     /\ LoopVariant(run'[r], K) >= 0]_vars

\* pages of 100, 100 and 37 valid records: 3 requests, 237 returned
C8_Witness ==
    /\ run[1].pc = "done"
    /\ run[1].requests = <<0, 100, 200>>
    /\ run[1].returned = 237
    /\ Len(WindowOf(1)) = 237

\* C9: when the store holds an entry written by persistBatch that has a
\* created_timestamp, a cursor query that succeeds resolves to the greatest
\* created_timestamp stored, and that is the start of the run's window.
C9_CursorIsNewestPersisted ==
    [][\A r \in DOMAIN run :
          (/\ run[r].pc = "query"
           /\ run'[r].pc = "fetch"
           /\ ~run'[r].queryFailed
           /\ PersistedTimestamps(firestore) # {})
              => /\ run'[r].lastSyncTimestamp \in PersistedTimestamps(firestore)
                 /\ \A t \in PersistedTimestamps(firestore) : t <= run'[r].lastSyncTimestamp
                 /\ run'[r].minCreated = run'[r].lastSyncTimestamp]_vars

\* the documents the cursor query can see: those with a field body.created_timestamp
WithWrappedTimestamp(db) ==
    {p \in LedgerDocs(db) : "body" \in DOMAIN db[p] /\ "created_timestamp" \in DOMAIN db[p].body}

\* the three cases of C10 at the step that settles the cursor query of run r:
\* the query throws, the ledger-entry store is empty, or the top entry has no
\* created_timestamp
FallbackCase(r) ==
    \/ run'[r].queryFailed
    \/ LedgerDocs(firestore) = {}
    \/ /\ WithWrappedTimestamp(firestore) # {}
       /\ \A p \in WithWrappedTimestamp(firestore) : firestore[p].body.created_timestamp = 0

\* C10: the step that settles the cursor query never fails the run; in the three
\* fallback cases the window starts at the variant's default (now - 2,592,000
\* in ledgerSync.ts, 0 in the capped variant) and the first page is requested.
C10_CursorFallsBackToDefault ==
    [][\A r \in DOMAIN run :
          run[r].pc = "query" =>
              /\ run'[r].pc \in {"query", "fetch"}
              /\ (run'[r].pc = "fetch" /\ FallbackCase(r)) =>
                    /\ run'[r].lastSyncTimestamp =
                           IF variant = "uncapped" THEN now - 2592000 ELSE 0
                    /\ run'[r].minCreated = run'[r].lastSyncTimestamp
                    /\ run'[r].requests = <<0>>]_vars

\* the top entry has no timestamp and the uncapped variant starts 30 days back
C10_Witness ==
    /\ run[1].pc = "fetch"
    /\ run[1].cursorLog = "missing"
    /\ variant = "uncapped"
    /\ run[1].minCreated = now - 2592000
    /\ run[1].requests = <<0>>

\* the page the remote ledger serves for the request run r is waiting for
RequestedPage(r) ==
    RemotePage(remote, run[r].minCreated, run[r].maxCreated, 100, run[r].offset)

\* C11: persistBatch is handed the whole page; its commit adds or updates
\* exactly the documents events/etsy/ledgerentry/<entry_id> of the records
\* that have an entry_id, with the fields of the record, leaves every other
\* document alone, and counts these records; a page without any such record
\* causes no write and counts 0.
C11_PersistBatchWritesValidOnly ==
    [][\A r \in DOMAIN run :
          /\ (run[r].pc = "fetch" /\ run'[r].pc = "commit") =>
                /\ run'[r].entries = RequestedPage(r)
                /\ firestore' = firestore
          /\ (run[r].pc = "fetch" /\ run'[r].pc \in {"fetch", "done"} /\ run'[r] # run[r]) =>
                /\ WithEntryId(RequestedPage(r)) = {}
                /\ firestore' = firestore
                /\ run'[r].totalPersisted = run[r].totalPersisted
          /\ (run[r].pc = "commit" /\ run'[r].pc \in {"fetch", "done"}) =>
                LET batch == run[r].entries
                    valid == WithEntryId(batch)
                    written == {[collection |-> "events/etsy/ledgerentry",
                                 id |-> batch[i].entry_id] : i \in valid}
                IN  /\ DOMAIN firestore' = (DOMAIN firestore) \cup written
                    /\ \A i \in valid :
                          LET doc == firestore'[[collection |-> "events/etsy/ledgerentry",
                                                 id |-> batch[i].entry_id]]
                          IN  \A f \in DOMAIN batch[i] : f \in DOMAIN doc /\ doc[f] = batch[i][f]
                    /\ \A p \in (DOMAIN firestore) \ written : firestore'[p] = firestore[p]
                    /\ run'[r].totalPersisted = run[r].totalPersisted + Cardinality(valid)]_vars

\* a page of 10 records of which 2 lack entry_id: 8 written, 8 returned
C11_Witness ==
    /\ run[1].pc = "done"
    /\ run[1].commits = 1
    /\ Len(WindowOf(1)) = 10
    /\ Cardinality(WithEntryId(WindowOf(1))) = 8
    /\ run[1].returned = 8
    /\ Cardinality({p \in LedgerDocs(firestore) : "entry_id" \in DOMAIN firestore[p]}) = 8

\* C12: a commit of persistBatch that fails leaves the store as it was (no
\* record of the batch is added or updated), is not tried again, and its error
\* ends the run: no further request or commit, the invocation is over.
C12_CommitFailureAtomic ==
    [][\A r \in DOMAIN run :
          /\ (run[r].pc = "commit" /\ run'[r] # run[r]) => run'[r].pc # "commit"
          /\ (run[r].pc = "commit" /\ run'[r].pc = "failed") =>
                /\ firestore' = firestore
                /\ \A i \in WithEntryId(run[r].entries) :
                      LET p == [collection |-> "events/etsy/ledgerentry",
                                id |-> run[r].entries[i].entry_id]
                      IN  p \notin DOMAIN firestore => p \notin DOMAIN firestore'
                /\ run'[r].outcome = "threw"
                /\ run'[r].thrownBy = "commit"
                /\ run'[r].requests = run[r].requests
                /\ run'[r].commits = run[r].commits
          /\ (run[r].pc = "failed" /\ run'[r] # run[r]) =>
                /\ run'[r].pc = "idle"
                /\ run'[r].requests = <<>>
                /\ firestore' = firestore]_vars

\* the commit of the second page failed: the first page is stored, no record
\* of the second is
C12_Witness ==
    /\ run[1].pc = "failed"
    /\ run[1].thrownBy = "commit"
    /\ run[1].requests = <<0, 100>>
    /\ run[1].commits = 1
    /\ LET window == WindowOf(1)
       IN  /\ \E i \in WithEntryId(window) : i > 100
           /\ \A i \in WithEntryId(window) :
                 (i > 100) # ([collection |-> "events/etsy/ledgerentry",
                               id |-> window[i].entry_id] \in DOMAIN firestore)

\* the records with an entry_id of the pages before the one run r has requested
\* last are in the store, with their fields
EarlierPagesStored(r) ==
    LET window == WindowOf(r)
        before == (Len(run[r].requests) - 1) * 100
    IN  \A i \in WithEntryId(window) :
            i <= before =>
                LET p == [collection |-> "events/etsy/ledgerentry", id |-> window[i].entry_id]
                IN  /\ p \in DOMAIN firestore
                    /\ \A f \in DOMAIN window[i] :
                          f \in DOMAIN firestore[p] /\ firestore[p][f] = window[i][f]

\* C13: when the request for page k fails the run ends with that error, without
\* another request (a page is requested again in no case: a further request is
\* the next offset after a full page), the store is as before the failure, and
\* the valid records of pages 0..k-1 are in it.
C13_FetchFailureAborts ==
    /\ [](\A r \in DOMAIN run :
            (run[r].pc = "failed" /\ run[r].thrownBy = "fetch") => EarlierPagesStored(r))
    /\ [][\A r \in DOMAIN run :
             /\ (run[r].pc = "fetch" /\ run'[r].pc = "failed") =>
                   /\ firestore' = firestore
                   /\ run'[r].outcome = "threw"
                   /\ run'[r].thrownBy = "fetch"
                   /\ run'[r].requests = run[r].requests
                   /\ run'[r].commits = run[r].commits
             /\ (run[r].pc = "fetch" /\ run'[r].pc = "fetch" /\ run'[r] # run[r]) =>
                   /\ Len(RequestedPage(r)) = 100
                   /\ run'[r].requests = Append(run[r].requests, run[r].offset + 100)
             /\ (run[r].pc = "failed" /\ run[r].thrownBy = "fetch" /\ run'[r] # run[r]) =>
                   /\ run'[r].pc = "idle"
                   /\ run'[r].requests = <<>>
                   /\ run'[r].commits = 0
                   /\ firestore' = firestore]_vars

\* the request for the third page failed; the records of the first two pages
\* are stored
C13_Witness ==
    /\ run[1].pc = "failed"
    /\ run[1].thrownBy = "fetch"
    /\ run[1].requests = <<0, 100, 200>>
    /\ run[1].commits = 2
    /\ Cardinality(WithEntryId(WindowOf(1))) > 200
    /\ EarlierPagesStored(1)

\* C14: while ETSY_SYNC_ENABLED is "false" (its default when not set) no
\* invocation of etsyLedgerSync has made a cursor query, a request to the
\* remote ledger or a write to the store.
C14_DisabledDoesNothing ==
    etsySyncEnabled = "false" =>
        /\ \A r \in DOMAIN run :
              /\ run[r].queries = 0
              /\ run[r].requests = <<>>
              /\ run[r].commits = 0
        /\ firestore \in InitialStores

\* C15: in the capped variant the window of every request of every run ends
\* 2,592,000 seconds after its start, whatever the clock says, and stays the
\* same for all requests of the run.
C15_CappedWindowIsThirtyDays ==
    /\ [](variant = "capped" =>
            \A r \in DOMAIN run :
                run[r].requests # <<>> => run[r].maxCreated = run[r].minCreated + 2592000)
    /\ [][variant = "capped" =>
            \A r \in DOMAIN run :
                (run[r].requests # <<>> /\ run'[r].requests # <<>>) =>
                    /\ run'[r].minCreated = run[r].minCreated
                    /\ run'[r].maxCreated = run[r].maxCreated]_vars

\* a capped run a day later, asking for its second page of the 30 days that
\* follow the cursor
C15_Witness ==
    /\ variant = "capped"
    /\ now > StartOfClock
    /\ run[1].requests = <<0, 100>>
    /\ run[1].minCreated = 20 * DaySeconds
    /\ run[1].maxCreated = 50 * DaySeconds

\* C16: when a run of the uncapped variant has returned, every entry of the
\* remote ledger that has an entry_id and was created between the newest entry
\* persisted before the run and the run's now is in the store.
C16_UncappedFinishesBacklog ==
    \A r \in DOMAIN run :
        (/\ variant = "uncapped"
         /\ run[r].pc = "done"
         /\ run[r].outcome = "returned"
         /\ NewestPersisted(run[r].storeAtStart) >= 0) =>
            \A i \in 1..Len(remote) :
                (/\ "entry_id" \in DOMAIN remote[i]
                 /\ NewestPersisted(run[r].storeAtStart) <= remote[i].created_timestamp
                 /\ remote[i].created_timestamp <= now) =>
                    [collection |-> "events/etsy/ledgerentry",
                     id |-> remote[i].entry_id] \in DOMAIN firestore

\* C17: at every commit of persistBatch, committing the same records once more
\* would leave the store as it is after the commit; the document that holds an
\* entry_id is the one whose key is that entry_id, so no two documents hold the
\* same; and a field of an existing document that the new record does not have
\* keeps its value.
C17_IdempotentMergeUpsert ==
    [][\A r \in DOMAIN run :
          (run[r].pc = "commit" /\ run'[r].pc \in {"fetch", "done"}) =>
              LET batch == run[r].entries
                  valid == WithEntryId(batch)
              IN  /\ BatchCommit(firestore', SelectSeq(batch, LAMBDA e : "entry_id" \in DOMAIN e))
                         = firestore'
                  /\ \A p \in DOMAIN firestore' :
                        (p.collection = "events/etsy/ledgerentry"
                         /\ "entry_id" \in DOMAIN firestore'[p]) => firestore'[p].entry_id = p.id
                  /\ \A i \in valid :
                        LET p == [collection |-> "events/etsy/ledgerentry",
                                  id |-> batch[i].entry_id]
                        IN  p \in DOMAIN firestore =>
                                \A f \in (DOMAIN firestore[p]) \ (DOMAIN batch[i]) :
                                    /\ f \in DOMAIN firestore'[p]
                                    /\ firestore'[p][f] = firestore[p][f]]_vars

\* the record with entry_id 1 is committed again to its document, which has
\* kept the field body it had before the first commit
C17_Witness ==
    /\ run[1].pc = "commit"
    /\ run[1].offset = 0
    /\ "entry_id" \in DOMAIN run[1].entries[1]
    /\ run[1].entries[1].entry_id = 1
    /\ LET p == [collection |-> "events/etsy/ledgerentry", id |-> 1]
       IN  /\ p \in DOMAIN firestore
           /\ DOMAIN firestore[p] = {"body", "entry_id", "created_timestamp", "amount"}
           /\ firestore[p].amount = run[1].entries[1].amount

\* C19: while a request of a run is in flight the run holds no fetched record
\* and the records with an entry_id of all earlier pages are in the store;
\* while a commit is in flight the run holds the page of its last request, at
\* most 100 records, and has made no request since; a request is added only by
\* the step that ends the persistence of the page before (its commit resolves,
\* or the page had no record to commit).
C19_PageStoredBeforeNextRequest ==
    /\ [](\A r \in DOMAIN run :
            /\ Len(run[r].entries) <= 100
            /\ run[r].pc = "fetch" =>
                  /\ run[r].entries = <<>>
                  /\ run[r].offset = (Len(run[r].requests) - 1) * 100
                  /\ EarlierPagesStored(r)
            /\ run[r].pc = "commit" =>
                  /\ run[r].entries = RequestedPage(r)
                  /\ run[r].offset = (Len(run[r].requests) - 1) * 100
                  /\ EarlierPagesStored(r))
    /\ [][\A r \in DOMAIN run :
             (run[r].requests # <<>> /\ Len(run'[r].requests) > Len(run[r].requests)) =>
                 /\ \/ run[r].pc = "commit"
                    \/ run[r].pc = "fetch" /\ WithEntryId(RequestedPage(r)) = {}
                 /\ run'[r].entries = <<>>
                 /\ Len(run'[r].requests) = Len(run[r].requests) + 1]_vars

\* the second page is requested after the first has been committed
C19_Witness ==
    /\ run[1].pc = "fetch"
    /\ run[1].requests = <<0, 100>>
    /\ run[1].commits = 1
    /\ run[1].entries = <<>>
    /\ Cardinality(WithEntryId(WindowOf(1))) > 100
    /\ EarlierPagesStored(1)

(***************************************************************************)
(* Two invocations of etsyLedgerSync of ledgerSync.ts at the same time     *)
(* (the scheduler does not wait for a run that is still going, and the     *)
(* code takes no lock).                                                    *)
(***************************************************************************)
\* the ledger of the overlapping runs: full pages and a rest, from day 16 (in
\* the window of either variant), some entries without entry_id
OverlapLedgers ==
    {Ledger(MaxFullPages * limit + 37, 16 * DaySeconds, "fifthInvalid")}

OverlapInit ==
    /\ WebhookIdle
    /\ firestore \in InitialStores
    /\ variant = "uncapped"
    /\ etsySyncEnabled = "false"
    /\ etsyShopId = "12345"
    /\ remote \in OverlapLedgers
    /\ now = StartOfClock
    /\ run = [r \in {1, 2} |-> IdleRun]

\* the steps of the two invocations, in any order
OverlapNext ==
    \E r \in {1, 2} :
        \/ etsyLedgerSync(r)
        \/ CursorQueryResolves(r)
        \/ CursorQueryRejects(r)
        \/ FetchResolves(r)
        \/ FetchRejects(r)
        \/ CommitResolves(r)
        \/ CommitRejects(r)

OverlapSpec == OverlapInit /\ [][OverlapNext]_vars

\* the store one run makes of the store before and the records of its window:
\* each record with an entry_id is in the document of its entry_id, over the
\* fields that document had; the other documents are as before
SingleRunStore(before, window) ==
    LET valid == WithEntryId(window)
        written == {[collection |-> "events/etsy/ledgerentry", id |-> window[i].entry_id] :
                       i \in valid}
    IN  [p \in (DOMAIN before) \cup written |->
            IF p \in written
            THEN LET e == window[CHOOSE i \in valid : window[i].entry_id = p.id]
                     old == IF p \in DOMAIN before THEN before[p] ELSE <<>>
                 IN  [f \in (DOMAIN e) \cup (DOMAIN old) |->
                         IF f \in DOMAIN e THEN e[f] ELSE old[f]]
            ELSE before[p]]

\* the records with an entry_id of the window of run r are in the store, with
\* their fields
WindowStored(r) ==
    LET window == WindowOf(r)
    IN  \A i \in WithEntryId(window) :
            LET p == [collection |-> "events/etsy/ledgerentry", id |-> window[i].entry_id]
            IN  /\ p \in DOMAIN firestore
                /\ \A f \in DOMAIN window[i] :
                      f \in DOMAIN firestore[p] /\ firestore[p][f] = window[i][f]

\* C18: with two overlapping runs, in every order of their steps, a document
\* that holds an entry_id is the one at the key of that entry_id; once both
\* runs are over, no record of the window of a run that returned is missing
\* from the store; and when both have returned without a failed call, the
\* store is the store one run alone makes of the store before the runs (the
\* store the run that began first has seen).
C18_OverlappingRunsAsOne ==
    /\ \A p \in DOMAIN firestore :
          (p.collection = "events/etsy/ledgerentry" /\ "entry_id" \in DOMAIN firestore[p])
              => firestore[p].entry_id = p.id
    /\ (\A r \in DOMAIN run : run[r].pc \in {"done", "failed"}) =>
          /\ \A r \in DOMAIN run : run[r].outcome = "returned" => WindowStored(r)
          /\ (\A r \in DOMAIN run : run[r].outcome = "returned" /\ ~run[r].queryFailed) =>
                \A r \in DOMAIN run :
                    \E first \in DOMAIN run :
                        /\ \A q \in DOMAIN run :
                              DOMAIN run[first].storeAtStart \subseteq DOMAIN run[q].storeAtStart
                        /\ firestore = SingleRunStore(run[first].storeAtStart, WindowOf(r))

\* both runs have fetched and committed every page of a window of more than
\* 200 records, over a document that was in the store before
C18_Witness ==
    /\ \A r \in {1, 2} :
          /\ run[r].pc = "done"
          /\ run[r].outcome = "returned"
          /\ ~run[r].queryFailed
          /\ run[r].commits = 3
          /\ run[r].returned > 160
    /\ "body" \in DOMAIN firestore[[collection |-> "events/etsy/ledgerentry", id |-> 1]]
    /\ "entry_id" \in DOMAIN firestore[[collection |-> "events/etsy/ledgerentry", id |-> 1]]

\* the entries of the remote ledger that have an entry_id and were created at
\* or after the start of the window of run r are in the store
RemoteStoredFrom(r) ==
    \A i \in 1..Len(remote) :
        ("entry_id" \in DOMAIN remote[i] /\ run[r].minCreated <= remote[i].created_timestamp) =>
            [collection |-> "events/etsy/ledgerentry", id |-> remote[i].entry_id]
                \in DOMAIN firestore

\* C20: repeated successful runs of the capped variant eventually store every
\* entry of the remote ledger.  A capped run is determined by the store and the
\* ledger, so a successful run that leaves the store as it found it is followed
\* by runs that do the same; eventual completion therefore means: a run that
\* returns without having changed the store has nothing left to persist from
\* the start of its window on.
C20_CappedRunsProgress ==
    \A r \in DOMAIN run :
        (/\ variant = "capped"
         /\ run[r].pc = "done"
         /\ run[r].outcome = "returned"
         /\ ~run[r].queryFailed
         /\ firestore = run[r].storeAtStart) => RemoteStoredFrom(r)

\* C21: whether the loop goes on depends on the number of records fetched: a
\* page of exactly 100 records is followed by the request for the next offset,
\* a shorter page ends the loop, however many of the records have an entry_id;
\* a page without any such record causes no commit and no change of the store;
\* so a run that returns has made floor(N/100)+1 requests for the N records
\* fetched and returns the number of those with an entry_id, which can be
\* smaller than N.
C21_ContinuesOnFetchedCount ==
    /\ [](\A r \in DOMAIN run :
            (run[r].pc = "done" /\ run[r].outcome = "returned") =>
                LET window == WindowOf(r)
                    valid == WithEntryId(window)
                IN  /\ Len(run[r].requests) = (Len(window) \div 100) + 1
                    /\ run[r].returned = Cardinality(valid)
                    /\ run[r].returned <= Len(window)
                    /\ run[r].commits <= Len(run[r].requests)
                    /\ valid = {} => (run[r].commits = 0 /\ firestore = run[r].storeAtStart))
    /\ [][\A r \in DOMAIN run :
             /\ (run[r].pc = "fetch" /\ run'[r] # run[r] /\ run'[r].pc # "failed") =>
                   LET page == RequestedPage(r)
                   IN  IF WithEntryId(page) = {}
                       THEN /\ firestore' = firestore
                            /\ run'[r].commits = run[r].commits
                            /\ run'[r].totalPersisted = run[r].totalPersisted
                            /\ IF Len(page) = 100
                               THEN /\ run'[r].pc = "fetch"
                                    /\ run'[r].requests =
                                           Append(run[r].requests, run[r].offset + 100)
                               ELSE /\ run'[r].pc = "done"
                                    /\ run'[r].requests = run[r].requests
                       ELSE /\ run'[r].pc = "commit"
                            /\ run'[r].entries = page
                            /\ run'[r].requests = run[r].requests
             /\ (run[r].pc = "commit" /\ run'[r].pc \in {"fetch", "done"}) =>
                   IF Len(run[r].entries) = 100
                   THEN /\ run'[r].pc = "fetch"
                        /\ run'[r].requests = Append(run[r].requests, run[r].offset + 100)
                   ELSE /\ run'[r].pc = "done"
                        /\ run'[r].requests = run[r].requests]_vars

\* 237 records fetched in three requests, none with an entry_id: nothing
\* committed, the store untouched, 0 returned
C21_Witness ==
    /\ run[1].pc = "done"
    /\ run[1].outcome = "returned"
    /\ Len(WindowOf(1)) = 237
    /\ WithEntryId(WindowOf(1)) = {}
    /\ run[1].requests = <<0, 100, 200>>
    /\ run[1].commits = 0
    /\ run[1].returned = 0
    /\ firestore = run[1].storeAtStart

====
